---- MODULE Spec2Model ----
(***************************************************************************)
(* A model of tahoefuse/cachedb.py: the cache directory life cycle of      *)
(* CacheDB (salt, liveness scan, garbage collection), the read-through of  *)
(* CachedDir, and the CachedFile object (construction, block-cached read   *)
(* loop, close).                                                           *)
(*                                                                         *)
(* Strings that the code computes with (upaths, HKDF info strings) are     *)
(* sequences of one-character strings; NUL stands for the byte \x00.       *)
(* A derived file name is the pair (PRK, info) it is an HMAC of: SHA-512   *)
(* collisions are not modelled.                                            *)
(***************************************************************************)
EXTENDS Integers, Sequences, FiniteSets, TLC

VARIABLES
    disk,      \* the cache directory: basename -> entry
    pc,        \* position of the CacheDB constructor / state of the CacheDB
    prk,       \* CacheDB.prk
    alive,     \* basenames of CacheDB.alive_files
    stack,     \* the scan's stack of (upath, fn, key)
    nsalt,     \* number of salts drawn from the random generator so far
    nopens,    \* number of CacheDB constructions started
    removed,   \* basenames unlinked by the running/last CacheDB constructor
    err,       \* exception that left the last constructor ("" for none)
    cfpc,      \* position of the CachedFile object (construction, read loop)
    nobj,      \* number of CachedFile constructions started
    nreads,    \* number of read calls on the current CachedFile
    info,      \* CachedFile.info
    dirty,     \* CachedFile.dirty
    f_info,    \* CachedFile.f: "None", "open" or "closed"
    f_state,   \* CachedFile.f_state
    f_data,    \* CachedFile.f_data
    res,       \* block_cache: the resident blocks
    blk,       \* block_cache over f_data: block -> what its bytes are
    req,       \* (offset, length) of the running read
    pos,       \* (c_offset, c_length) of the running read
    stream_f,  \* index in streams of the open remote stream, 0 for None
    stream_offset,
    stream_data,   \* the pending chunks: their total length and origin
    read_offset,
    read_bytes,
    streams,   \* the remote streams the running/last read opened
    faults,    \* premature EOFs met by the running read
    httperr,   \* the remote store raised HTTPError in the running/last read
    result,    \* how the last constructor or read ended
    res0,      \* the resident blocks when the running/last read was called
    atClose,   \* the block cache at the last close
    getinfo,   \* the io.get_info calls of the running/last CachedDir or
               \* CachedFile constructor
    other,     \* the frame of a read call made by a second thread
    args,      \* two (upath, ext) given to get_filename_and_key
    derived    \* the names derived from them, <<>> before

dbvars == <<disk, pc, prk, alive, stack, nsalt, nopens, removed, err>>

\* the arguments and results of get_filename_and_key taken alone
namevars == <<args, derived>>

\* the variables no step of a CachedFile changes: those of the CacheDB other
\* than the cache directory, and namevars
cdbvars == <<pc, prk, alive, stack, nsalt, nopens, removed, err, namevars>>

\* the variables of the CachedFile object
cfilevars == <<cfpc, nobj, nreads, info, dirty, f_info, f_state, f_data, res, blk, req, pos,
               stream_f, stream_offset, stream_data, read_offset, read_bytes, streams,
               faults, httperr, result, res0, atClose, other>>

\* the variables no step of the CacheDB changes
filevars == <<cfilevars, getinfo, namevars>>

vars == <<dbvars, filevars>>

-----------------------------------------------------------------------------
(* Bounds of the model *)

\* CacheDB constructions in one behaviour
MaxOpens == 2

\* CachedFile constructions in one behaviour, and read calls on one object
MaxObjects == 3
MaxReads == 2

\* premature ends of stream met by one read call
MaxFaults == 1

\* read calls of the second thread in one behaviour
MaxOtherReads == 1

\* length of the path strings get_filename_and_key is tried on
MaxPathLen == 2

\* block size of the block cache, blocks of the remote file, bytes of its
\* last block, and the length of a short stream.read
BlockSize == 4096
NBlocks == 3
LastLen == 4000
ShortRead == 3000

-----------------------------------------------------------------------------
(* Names *)

NUL == "NUL"

\* b"//\x00"
nonpath == <<"/", "/", NUL>>

None == "None"

\* the extension tags used by the code
Exts == {None, "state", "data"}

NoPrk == [cap |-> "", salt |-> 0]

\* 'salt', the one fixed basename of the cache directory
SaltFn == [kind |-> "literal", prk |-> NoPrk, info |-> <<"s", "a", "l", "t">>]

\* os.path.join(upath, c_fn) of posixpath
PathJoin(upath, c_fn) ==
    IF Len(c_fn) > 0 /\ Head(c_fn) = "/" THEN c_fn
    ELSE IF upath = <<>> \/ upath[Len(upath)] = "/" THEN upath \o c_fn
    ELSE upath \o <<"/">> \o c_fn

\* the bytes of an extension tag
TagOf(ext) ==
    IF ext = "state" THEN <<"s", "t", "a", "t", "e">> ELSE <<"d", "a", "t", "a">>

\* an info string that joins path and tag without the separator
InfoOf_NoSeparator(upath, ext) ==
    IF ext = None THEN upath ELSE upath \o TagOf(ext)

\* the HKDF/HMAC info string of get_filename_and_key (lines 137-143)
InfoOf(upath, ext) ==
    IF ext = None THEN upath ELSE upath \o nonpath \o TagOf(ext)

\* get_filename_and_key: the basename is HMAC(HKDF(prk, info), info); the key
\* is HKDF(prk, info), so a name identifies its key
get_filename_and_key(p, upath, ext) ==
    [kind |-> "hmac", prk |-> p, info |-> InfoOf(upath, ext)]

-----------------------------------------------------------------------------
(* The cache directory *)

isfile(d, fn) == fn \in DOMAIN d /\ d[fn].type = "file"

File(body) == [type |-> "file", body |-> body]

Subdir == [type |-> "dir"]

\* os.unlink of a set of regular files
Unlink(d, fns) == [fn \in DOMAIN d \ fns |-> d[fn]]

\* create-truncate and write (open(.., 'wb') / CryptFile(.., 'w+b') + write)
WriteFile(d, fn, body) == (fn :> File(body)) @@ d

-----------------------------------------------------------------------------
(* JSON documents and the Python operations the code applies to them *)

JNum == [t |-> "num"]
JStr(s) == [t |-> "str", v |-> s]
JList(s) == [t |-> "list", v |-> s]
JObj(f) == [t |-> "obj", v |-> f]

\* file content that CryptFile cannot decrypt or json.load cannot parse
Garbage == [t |-> "garbage"]

JsonTypes == {"num", "str", "list", "obj"}

Ok(v) == [exc |-> "", val |-> v]
Raise(e) == [exc |-> e, val |-> JNum]

\* x[i] for a zero-based index i (the strings of the model are not empty, and
\* the first character of one is a string that equals no node kind)
GetItem(x, i) ==
    CASE x.t = "list" -> IF i < Len(x.v) THEN Ok(x.v[i + 1]) ELSE Raise("IndexError")
      [] x.t = "str" -> IF i = 0 THEN Ok(JStr("one character")) ELSE Raise("IndexError")
      [] x.t = "obj" -> Raise("KeyError")
      [] OTHER -> Raise("TypeError")

\* x.get(key, default)
DictGet(x, key, default) ==
    IF x.t = "obj"
    THEN Ok(IF key \in DOMAIN x.v THEN x.v[key] ELSE default)
    ELSE Raise("AttributeError")

\* x.items(): the mapping itself
DictItems(x) == IF x.t = "obj" THEN Ok(x.v) ELSE Raise("AttributeError")

\* json.load(CryptFile(fn, key)) of a regular file
JsonLoad(body) == IF body.t \in JsonTypes THEN Ok(body) ELSE Raise("ValueError")

KeyChildren == <<"children">>

-----------------------------------------------------------------------------
(* CacheDB *)

NoReq == [offset |-> 0, length |-> 0]
NoPos == [c_offset |-> 0, c_length |-> 0]
NoData == [src |-> 0, len |-> 0]
NoClose == [closed |-> FALSE]

\* a constructor of kind ("dir", "file") on upath: whether its node artifact
\* opened and decoded, how often it called io.get_info and how the call ended
GetInfo(kind, upath, decoded, calls, got) ==
    [kind |-> kind, upath |-> upath, decoded |-> decoded, calls |-> calls, got |-> got]
NoGetInfo == GetInfo("none", <<>>, FALSE, 0, "none")

\* the locals of _do_rw in a second thread (lines 224-233), before its call:
\* open says whether its stream_f is a stream, s is that stream
NoOther ==
    [pc |-> "idle", calls |-> 0, req |-> NoReq, pos |-> NoPos, open |-> FALSE,
     s |-> [start |-> 0, len |-> 0, delivered |-> 0],
     stream_offset |-> 0, stream_data |-> NoData, read_offset |-> 0, read_bytes |-> 0,
     opened |-> 0, result |-> ""]

\* no CachedFile object exists
NoCachedFile ==
    /\ cfpc = "none" /\ nobj = 0 /\ nreads = 0
    /\ info = None /\ dirty = FALSE
    /\ f_info = "None" /\ f_state = "None" /\ f_data = "None"
    /\ res = {} /\ blk = <<>>
    /\ req = NoReq /\ pos = NoPos
    /\ stream_f = 0 /\ stream_offset = 0 /\ stream_data = NoData
    /\ read_offset = 0 /\ read_bytes = 0
    /\ streams = <<>> /\ faults = 0 /\ httperr = FALSE
    /\ result = "" /\ res0 = {} /\ atClose = NoClose
    /\ getinfo = NoGetInfo /\ other = NoOther
    /\ args = <<>> /\ derived = <<>>

SaltBody(n, s) == [t |-> "salt", n |-> n, s |-> s]

\* len(f.read(32)) at position at of a file of n bytes
ReadLen(n, at) == IF n - at >= 32 THEN 32 ELSE IF n > at THEN n - at ELSE 0

\* lines 49-55: TRUE when the salt file yields two 32-byte salts
SaltReadable(d) ==
    /\ isfile(d, SaltFn)
    /\ ReadLen(d[SaltFn].body.n, 0) = 32
    /\ ReadLen(d[SaltFn].body.n, 32) = 32

\* lines 64-71: PBKDF2 of the rootcap and the salt, then HKDF-extract
DerivePrk(rootcap, s) == [cap |-> rootcap, salt |-> s]

\* _generate_prk that writes a new salt file on every open
SaltDisk_AlwaysNew(d, fresh) == WriteFile(d, SaltFn, SaltBody(64, fresh))

\* the disk after _generate_prk
SaltDisk(d, fresh) ==
    IF SaltReadable(d) THEN d ELSE WriteFile(d, SaltFn, SaltBody(64, fresh))

\* the value _generate_prk returns
generate_prk(d, rootcap, fresh) ==
    DerivePrk(rootcap, IF SaltReadable(d) THEN d[SaltFn].body.s ELSE fresh)

StackEntry(upath, fn) == [upath |-> upath, fn |-> fn]

\* lines 84-86
RootStack(d, p) ==
    LET fn == get_filename_and_key(p, <<>>, None)
    IN  IF isfile(d, fn) THEN <<StackEntry(<<>>, fn)>> ELSE <<>>

\* lines 96-102: the children of a directory artifact, or the exception
LoadChildren(body) ==
    LET data == JsonLoad(body)
        d0 == GetItem(data.val, 0)
        d1 == GetItem(data.val, 1)
        ch == DictGet(d1.val, KeyChildren, JObj(<<>>))
    IN  IF data.exc # "" THEN data
        ELSE IF d0.exc # "" THEN d0
        ELSE IF d0.val # JStr("dirnode") THEN Raise("ValueError")
        ELSE IF d1.exc # "" THEN d1
        ELSE IF ch.exc # "" THEN ch
        ELSE DictItems(ch.val)

\* except (IOError, OSError, ValueError)
Caught(e) == e \in {"IOError", "OSError", "ValueError"}

\* c_info[0] of every child (lines 108, 112)
ChildKind(children, c) == GetItem(children[c], 0)

\* a walk that records only the node artifact of a filenode child
FileChildNames_NodeOnly(p, upath, children) ==
    { get_filename_and_key(p, PathJoin(upath, c), None) :
        c \in {k \in DOMAIN children : ChildKind(children, k).val = JStr("filenode")} }

\* lines 112-115: the artifacts of the filenode children
FileChildNames(p, upath, children) ==
    { get_filename_and_key(p, PathJoin(upath, c), ext) :
        c \in {k \in DOMAIN children : ChildKind(children, k).val = JStr("filenode")},
        ext \in Exts }

\* lines 108-111: the dirnode children whose artifact exists
DirChildEntries(d, p, upath, children) ==
    { StackEntry(PathJoin(upath, c), get_filename_and_key(p, PathJoin(upath, c), None)) :
        c \in {k \in DOMAIN children :
                 /\ ChildKind(children, k).val = JStr("dirnode")
                 /\ isfile(d, get_filename_and_key(p, PathJoin(upath, k), None))} }

\* the sequences that list every element of S once (dict iteration order)
Orders(S) == { q \in [1..Cardinality(S) -> S] : \A x \in S : \E i \in DOMAIN q : q[i] = x }

RootCaps == {"capA", "capB"}

\* CacheDB.__init__ up to the start of the walk (lines 23-86)
Open(rootcap) ==
    /\ pc \in {"none", "ready", "failed"}
    /\ nopens < MaxOpens
    /\ nopens' = nopens + 1
    /\ nsalt' = IF SaltReadable(disk) THEN nsalt ELSE nsalt + 1
    /\ disk' = SaltDisk(disk, nsalt + 1)
    /\ prk' = generate_prk(disk, rootcap, nsalt + 1)
    /\ alive' = {}
    /\ stack' = RootStack(disk', prk')
    /\ removed' = {}
    /\ err' = ""
    /\ pc' = "scan"
    /\ UNCHANGED filevars

\* one iteration of the walk (lines 89-115)
ScanStep ==
    /\ pc = "scan"
    /\ stack # <<>>
    /\ LET top == stack[Len(stack)]
           rest == SubSeq(stack, 1, Len(stack) - 1)
           r == LoadChildren(disk[top.fn].body)
           bad == {c \in DOMAIN r.val : ChildKind(r.val, c).exc # ""}
       IN  IF ~isfile(disk, top.fn) \/ (r.exc # "" /\ Caught(r.exc))
           THEN /\ stack' = rest
                /\ UNCHANGED <<alive, pc, err>>
           ELSE IF r.exc # ""
           THEN /\ pc' = "failed"
                /\ err' = r.exc
                /\ UNCHANGED <<alive, stack>>
           ELSE IF bad # {}
           THEN /\ pc' = "failed"
                /\ \E c \in bad : err' = ChildKind(r.val, c).exc
                /\ UNCHANGED <<alive, stack>>
           ELSE /\ alive' = alive \cup {top.fn} \cup FileChildNames(prk, top.upath, r.val)
                /\ \E q \in Orders(DirChildEntries(disk, prk, top.upath, r.val)) :
                       stack' = rest \o q
                /\ UNCHANGED <<pc, err>>
    /\ UNCHANGED <<disk, prk, nsalt, nopens, removed>>
    /\ UNCHANGED filevars

\* a _cleanup that leaves the directory alone when the walk found nothing
Cleanup_SkipWhenEmpty ==
    /\ pc = "scan"
    /\ stack = <<>>
    /\ LET dead == IF alive = {} THEN {}
                   ELSE {fn \in DOMAIN disk : fn # SaltFn /\ fn \notin alive}
       IN  /\ disk' = Unlink(disk, dead)
           /\ removed' = dead
           /\ pc' = "ready"
           /\ err' = ""
    /\ UNCHANGED <<prk, alive, stack, nsalt, nopens>>
    /\ UNCHANGED filevars

\* _cleanup (lines 117-124); os.unlink of a subdirectory raises OSError after
\* the entries listed before it were unlinked
Cleanup ==
    /\ pc = "scan"
    /\ stack = <<>>
    /\ LET dead == {fn \in DOMAIN disk : fn # SaltFn /\ fn \notin alive}
           deadfiles == {fn \in dead : disk[fn].type = "file"}
       IN  IF dead = deadfiles
           THEN /\ disk' = Unlink(disk, dead)
                /\ removed' = dead
                /\ pc' = "ready"
                /\ err' = ""
           ELSE /\ \E before \in SUBSET deadfiles :
                       /\ disk' = Unlink(disk, before)
                       /\ removed' = before
                /\ pc' = "failed"
                /\ err' = "OSError"
    /\ UNCHANGED <<prk, alive, stack, nsalt, nopens>>
    /\ UNCHANGED filevars

-----------------------------------------------------------------------------
(* The remote store *)

ChildDir == JList(<<JStr("dirnode"), JObj(<<>>)>>)
ChildFile == JList(<<JStr("filenode"), JObj(<<>>)>>)

\* ["dirnode", {"children": children}]
DirInfo(children) == JList(<<JStr("dirnode"), JObj(KeyChildren :> JObj(children))>>)

A == <<"a">>
F == <<"f">>

\* the remote tree: / holds the directory a and the file f, a holds a file f
\* and an empty directory a
RemoteDirs == {<<>>, A, PathJoin(A, A)}

RemoteChildren(upath) ==
    CASE upath = <<>> -> (A :> ChildDir) @@ (F :> ChildFile)
      [] upath = A -> (A :> ChildDir) @@ (F :> ChildFile)
      [] OTHER -> <<>>

\* what io.get_info(upath) returns for a directory
RemoteDirInfo(upath) == DirInfo(RemoteChildren(upath))

-----------------------------------------------------------------------------
(* CachedDir *)

\* how the cold part of a CachedDir constructor goes: io.get_info answers, it
\* raises HTTPError, or CryptFile(filename, mode='w+b') raises IOError
DirOutcomes == {"ok", "HTTPError", "IOError"}

\* CachedDir.__init__ (lines 285-302)
CachedDir(upath, how) ==
    /\ pc = "ready"
    /\ cfpc \notin {"cold", "coldbuild"}    \* no other constructor is running
    /\ LET fn == get_filename_and_key(prk, upath, None)
       IN  IF isfile(disk, fn) /\ JsonLoad(disk[fn].body).exc = ""
           THEN /\ UNCHANGED <<disk, err>>
                /\ getinfo' = GetInfo("dir", upath, TRUE, 0, "none")
           ELSE IF how = "IOError"
           THEN /\ UNCHANGED disk
                /\ err' = "IOError"
                /\ getinfo' = GetInfo("dir", upath, FALSE, 0, "none")
           ELSE IF how = "ok"
           THEN /\ disk' = WriteFile(disk, fn, RemoteDirInfo(upath))
                /\ err' = ""
                /\ getinfo' = GetInfo("dir", upath, FALSE, 1, "ok")
           ELSE /\ disk' = Unlink(disk, {fn})
                /\ err' = "IOError(EFAULT)"
                /\ getinfo' = GetInfo("dir", upath, FALSE, 1, "fail")
    /\ UNCHANGED <<pc, prk, alive, stack, nsalt, nopens, removed>>
    /\ UNCHANGED cfilevars
    /\ UNCHANGED namevars

-----------------------------------------------------------------------------
(* The block cache (BlockCachedFile) *)

\* a JSON number with its value
JInt(n) == [t |-> "num", v |-> n]

\* size of the remote file f
FileSize == (NBlocks - 1) * BlockSize + LastLen

Blocks == 0 .. NBlocks - 1

BlockStart(b) == b * BlockSize
BlockEnd(b) == IF (b + 1) * BlockSize < FileSize THEN (b + 1) * BlockSize ELSE FileSize

\* content of a block of the data blob that RandomString filled
RandomFill == -1

\* the blocks that hold a byte of [offset, offset + length)
BlocksOf(offset, length) ==
    { b \in Blocks : BlockStart(b) < offset + length /\ offset < BlockEnd(b) }

\* the block cache of a file nothing of which is resident
EmptyCache == [b \in Blocks |-> RandomFill]

\* pre_read: None when the range is resident; else the ranges the cache may
\* ask for: from the first missing block, that block alone or the whole run
\* of missing blocks of the request that starts there
PreRead(r, offset, length) ==
    LET missing == BlocksOf(offset, length) \ r
        first == CHOOSE b \in missing : \A c \in missing : b <= c
        last == CHOOSE b \in missing :
                    /\ \A c \in first .. b : c \in missing
                    /\ b + 1 \notin missing
    IN  IF missing = {} THEN {NoPos}
        ELSE { [c_offset |-> BlockStart(first), c_length |-> BlockEnd(e) - BlockStart(first)] :
                 e \in {first, last} }

\* the blocks receive_cached_data can take from len bytes at offset
Covered(offset, len) ==
    { b \in Blocks : BlockStart(b) >= offset /\ BlockEnd(b) <= offset + len }

\* receive_cached_data(offset, data): the whole blocks of the data become
\* resident; returns the offset behind them and the data left over.
\* data.src is the remote offset the first byte of the data came from.
ReceiveOffset(offset, data) ==
    IF Covered(offset, data.len) = {} THEN offset
    ELSE BlockEnd(CHOOSE b \in Covered(offset, data.len) :
                     \A c \in Covered(offset, data.len) : c <= b)

ReceiveData(offset, data) ==
    LET new == ReceiveOffset(offset, data)
    IN  IF new = offset /\ Covered(offset, data.len) = {} THEN data
        ELSE [src |-> data.src + (new - offset), len |-> offset + data.len - new]

ReceiveRes(r, offset, data) == r \cup Covered(offset, data.len)

ReceiveBlk(r, k, offset, data) ==
    [b \in Blocks |->
        IF b \in Covered(offset, data.len) \ r
        THEN data.src + (BlockStart(b) - offset)
        ELSE k[b]]

\* save_state / restore_state: the state blob holds the residency map
SavedState(r) == [t |-> "state", size |-> FileSize, res |-> r]
SavedData(k) == [t |-> "data", size |-> FileSize, blk |-> k]

Restorable(state, data) ==
    /\ state.t = "state" /\ data.t = "data"
    /\ state.size = data.size

-----------------------------------------------------------------------------
(* Cache directories the CacheDB is opened on *)

Absent == [t |-> "absent"]

\* the PRK the artifacts of the starting directory were written under
Prk0 == DerivePrk("capA", 0)

FileInfo == JList(<<JStr("filenode"), JObj(<<>>)>>)

\* contents of a root artifact that is no well-formed dirnode
BrokenDocs ==
    { Garbage, JNum, JObj(<<>>), JList(<<>>), JStr("dirnode"), FileInfo,
      JList(<<JStr("dirnode")>>), JList(<<JStr("dirnode"), JNum>>),
      JList(<<JStr("dirnode"), JObj(KeyChildren :> JList(<<>>))>>),
      DirInfo((A :> JList(<<>>)) @@ (F :> ChildFile)),
      DirInfo((A :> ChildDir) @@ (F :> JNum)) }

\* well-formed root artifacts
RootDocs ==
    { JList(<<JStr("dirnode"), JObj(<<>>)>>),
      JList(<<JStr("dirnode"), JObj(KeyChildren :> JObj(<<>>)), JNum>>),
      DirInfo((A :> ChildDir) @@ (F :> ChildFile)),
      DirInfo((A :> ChildDir)),
      DirInfo((F :> ChildFile)),
      DirInfo((A :> JList(<<JStr("unknown")>>)) @@ (F :> JStr("filenode"))) }

\* artifacts of the directory a
ADocs ==
    { Absent, Garbage, FileInfo, JList(<<JStr("dirnode"), JNum>>),
      DirInfo(<<>>), DirInfo((F :> ChildFile)), DirInfo((A :> ChildDir) @@ (F :> ChildFile)) }

AADocs == { Absent, DirInfo(<<>>) }

StateBody == SavedState({})
DataBody == SavedData(EmptyCache)

\* which of the three artifacts of a file are on disk
FilePresence == { {}, {None}, {None, "state", "data"} }

ArtifactBody(ext) ==
    CASE ext = None -> FileInfo
      [] ext = "state" -> StateBody
      [] OTHER -> DataBody

\* a file whose name no upath of the current tree derives
StaleFn == get_filename_and_key(DerivePrk("capOld", 0), <<>>, None)
StaleDir == get_filename_and_key(DerivePrk("capOld", 0), A, None)

Strays == { <<>>, (StaleFn :> File(Garbage)) }

Salts == { <<>>, (SaltFn :> File(SaltBody(40, 0))), (SaltFn :> File(SaltBody(64, 0))),
           (SaltFn :> File(SaltBody(70, 0))) }

NodeFile(upath, doc) ==
    IF doc = Absent THEN <<>> ELSE (get_filename_and_key(Prk0, upath, None) :> File(doc))

FileArtifacts(upath, exts) ==
    [fn \in {get_filename_and_key(Prk0, upath, e) : e \in exts} |->
        File(ArtifactBody(CHOOSE e \in exts : get_filename_and_key(Prk0, upath, e) = fn))]

FullTree ==
    NodeFile(A, DirInfo((A :> ChildDir) @@ (F :> ChildFile))) @@ NodeFile(PathJoin(A, A), DirInfo(<<>>))
    @@ FileArtifacts(F, Exts) @@ FileArtifacts(PathJoin(A, F), Exts)

\* the starting cache directories: a broken root over a full tree, or a
\* well-formed root over any combination of the artifacts below it
StartDisks ==
    { NodeFile(<<>>, r) @@ FullTree : r \in BrokenDocs \cup {Absent} }
    \cup
    { NodeFile(<<>>, r) @@ NodeFile(A, a) @@ NodeFile(PathJoin(A, A), aa)
        @@ FileArtifacts(F, f) @@ FileArtifacts(PathJoin(A, F), af) :
        r \in RootDocs, a \in ADocs, aa \in AADocs, f \in FilePresence, af \in FilePresence }

\* a subdirectory in the cache directory, beside a root and one file
SubdirDisks ==
    { (StaleDir :> Subdir) @@ NodeFile(<<>>, r) @@ FileArtifacts(F, f) :
        r \in {Absent, DirInfo((F :> ChildFile))}, f \in FilePresence }

\* a root artifact that lists a child with the empty name as a dirnode
EmptyNameDisks ==
    { NodeFile(<<>>, DirInfo((<<>> :> ChildDir))),
      NodeFile(<<>>, DirInfo((<<>> :> ChildDir) @@ (F :> ChildFile))) @@ FileArtifacts(F, Exts) }

InitDB ==
    /\ \E salt \in Salts :
          \/ \E tree \in StartDisks, stray \in Strays : disk = salt @@ stray @@ tree
          \/ \E tree \in SubdirDisks : disk = salt @@ tree
          \/ \E tree \in EmptyNameDisks : disk = salt @@ tree
    /\ pc = "none"
    /\ prk = NoPrk
    /\ alive = {}
    /\ stack = <<>>
    /\ nsalt = 0
    /\ nopens = 0
    /\ removed = {}
    /\ err = ""
    /\ NoCachedFile

NextDB ==
    \/ \E rootcap \in RootCaps : Open(rootcap)
    \/ ScanStep
    \/ Cleanup
    \/ \E upath \in RemoteDirs, how \in DirOutcomes : CachedDir(upath, how)

SpecDB == InitDB /\ [][NextDB]_vars

-----------------------------------------------------------------------------
(* CachedFile: construction and close *)

KeySize == <<"size">>
KeyRoUri == <<"ro_uri">>

\* what io.get_info returns for the remote file f
RemoteFileInfo ==
    JList(<<JStr("filenode"), JObj((KeySize :> JInt(FileSize)) @@ (KeyRoUri :> JStr("URI:CHK:f")))>>)

\* the three artifacts of the file (lines 161-163)
filename == get_filename_and_key(prk, F, None)
filename_state == get_filename_and_key(prk, F, "state")
filename_data == get_filename_and_key(prk, F, "data")

\* how far the warm path gets (lines 171-176): the number of its four steps
\* that succeed
WarmSteps(d) ==
    IF ~(isfile(d, filename) /\ JsonLoad(d[filename].body).exc = "") THEN 0
    ELSE IF ~isfile(d, filename_state) THEN 1
    ELSE IF ~isfile(d, filename_data) THEN 2
    ELSE IF ~Restorable(d[filename_state].body, d[filename_data].body) THEN 3
    ELSE 4

\* the block cache is there to be read
Usable == cfpc \in {"ready", "loop", "inner"}

ResetRead ==
    /\ req' = NoReq /\ pos' = NoPos
    /\ stream_f' = 0 /\ stream_offset' = 0 /\ stream_data' = NoData
    /\ read_offset' = 0 /\ read_bytes' = 0
    /\ streams' = <<>> /\ faults' = 0 /\ httperr' = FALSE /\ res0' = {}

\* CachedFile.__init__, lines 161-185: the warm path, and the closing of the
\* streams when it fails
WarmPath ==
    /\ pc = "ready"
    /\ cfpc \in {"none", "closed", "failed"}
    /\ nobj < MaxObjects
    /\ nobj' = nobj + 1
    /\ nreads' = 0
    /\ result' = ""
    /\ ResetRead
    /\ getinfo' = GetInfo("file", F, WarmSteps(disk) >= 1, 0, "none")
    /\ LET n == WarmSteps(disk)
       IN  IF n = 4
           THEN /\ info' = disk[filename].body
                /\ f_info' = "open" /\ f_state' = "open" /\ f_data' = "open"
                /\ res' = disk[filename_state].body.res
                /\ blk' = disk[filename_data].body.blk
                /\ dirty' = FALSE
                /\ cfpc' = "ready"
           ELSE /\ info' = None
                /\ f_info' = IF isfile(disk, filename) THEN "closed" ELSE "None"
                /\ f_state' = IF n >= 2 THEN "closed" ELSE "None"
                /\ f_data' = IF n >= 3 THEN "closed" ELSE "None"
                /\ res' = {} /\ blk' = <<>>
                /\ dirty' = TRUE
                /\ cfpc' = "cold"
    /\ UNCHANGED <<disk, atClose, other>>
    /\ UNCHANGED cdbvars

\* the variables the cold path leaves alone
ColdFrame ==
    /\ UNCHANGED <<nobj, nreads, dirty, req, pos, stream_f, stream_offset, stream_data,
                   read_offset, read_bytes, streams, faults, httperr, res0, atClose,
                   other>>
    /\ UNCHANGED cdbvars

\* line 188 when CryptFile(filename, 'w+b') raises IOError
ColdOpenFails ==
    /\ cfpc = "cold"
    /\ cfpc' = "failed"
    /\ result' = "IOError"
    /\ UNCHANGED <<disk, info, f_info, f_state, f_data, res, blk>>
    /\ UNCHANGED getinfo
    /\ ColdFrame

\* a get_info failure that closes the info artifact and leaves it in place
ColdInfoFails_NoUnlink ==
    /\ cfpc = "cold"
    /\ disk' = WriteFile(disk, filename, Garbage)
    /\ f_info' = "closed"
    /\ cfpc' = "failed"
    /\ result' = "IOError(EFAULT)"
    /\ UNCHANGED <<info, f_state, f_data, res, blk>>
    /\ getinfo' = [getinfo EXCEPT !.calls = @ + 1, !.got = "fail"]
    /\ ColdFrame

\* lines 188-195 when io.get_info raises HTTPError
ColdInfoFails ==
    /\ cfpc = "cold"
    /\ disk' = Unlink(disk, {filename})
    /\ f_info' = "closed"
    /\ cfpc' = "failed"
    /\ result' = "IOError(EFAULT)"
    /\ UNCHANGED <<info, f_state, f_data, res, blk>>
    /\ getinfo' = [getinfo EXCEPT !.calls = @ + 1, !.got = "fail"]
    /\ ColdFrame

\* lines 188-191: the info artifact is created and io.get_info answers
ColdInfo ==
    /\ cfpc = "cold"
    /\ disk' = WriteFile(disk, filename, Garbage)
    /\ f_info' = "open"
    /\ info' = RemoteFileInfo
    /\ cfpc' = "coldbuild"
    /\ UNCHANGED <<result, f_state, f_data, res, blk>>
    /\ getinfo' = [getinfo EXCEPT !.calls = @ + 1, !.got = "ok"]
    /\ ColdFrame

\* what is on disk of a file that was written and never closed: all of it
\* or nothing of it
Unclosed(body, flushed) == IF flushed THEN body ELSE Garbage

\* lines 197-207: write the info, create the data file filled with random
\* data, the block cache over it and the state file
ColdBuild ==
    /\ cfpc = "coldbuild"
    /\ disk' = WriteFile(WriteFile(WriteFile(disk, filename, info),
                                    filename_data, SavedData(EmptyCache)),
                          filename_state, Garbage)
    /\ f_data' = "open" /\ f_state' = "open"
    /\ res' = {} /\ blk' = EmptyCache
    /\ cfpc' = "ready"
    /\ UNCHANGED <<result, info, f_info>>
    /\ UNCHANGED getinfo
    /\ ColdFrame

\* lines 197-200 when CryptFile(filename_data, 'w+b') raises IOError
ColdDataOpenFails ==
    /\ cfpc = "coldbuild"
    /\ \E fl \in BOOLEAN : disk' = WriteFile(disk, filename, Unclosed(info, fl))
    /\ cfpc' = "failed"
    /\ result' = "IOError"
    /\ UNCHANGED <<info, f_info, f_data, f_state, res, blk>>
    /\ UNCHANGED getinfo
    /\ ColdFrame

\* lines 197-201 when self.f_data.write raises IOError
ColdDataWriteFails ==
    /\ cfpc = "coldbuild"
    /\ \E fl \in BOOLEAN :
          disk' = WriteFile(WriteFile(disk, filename, Unclosed(info, fl)),
                            filename_data, Garbage)
    /\ f_data' = "open"
    /\ cfpc' = "failed"
    /\ result' = "IOError"
    /\ UNCHANGED <<info, f_info, f_state, res, blk>>
    /\ UNCHANGED getinfo
    /\ ColdFrame

\* lines 197-207 when CryptFile(filename_state, 'w+b') raises IOError
ColdStateOpenFails ==
    /\ cfpc = "coldbuild"
    /\ \E fl \in BOOLEAN, fd \in BOOLEAN :
          disk' = WriteFile(WriteFile(disk, filename, Unclosed(info, fl)),
                            filename_data, Unclosed(SavedData(EmptyCache), fd))
    /\ f_data' = "open"
    /\ res' = {} /\ blk' = EmptyCache
    /\ cfpc' = "failed"
    /\ result' = "IOError"
    /\ UNCHANGED <<info, f_info, f_state>>
    /\ UNCHANGED getinfo
    /\ ColdFrame

\* close that leaves the state file as it was created, without save_state
Close_NoSave ==
    /\ cfpc = "ready"
    /\ disk' = WriteFile(WriteFile(WriteFile(disk, filename_state, Garbage),
                                    filename_data, SavedData(blk)),
                          filename, IF dirty THEN info ELSE disk[filename].body)
    /\ f_state' = "closed" /\ f_data' = "closed" /\ f_info' = "closed"
    /\ atClose' = [res |-> res, blk |-> blk]
    /\ cfpc' = "closed"
    /\ UNCHANGED <<nobj, nreads, info, dirty, res, blk, req, pos, stream_f,
                   stream_offset, stream_data, read_offset, read_bytes, streams, faults,
                   httperr, result, res0, other>>
    /\ UNCHANGED getinfo
    /\ UNCHANGED cdbvars

\* CachedFile.close (lines 209-215)
Close ==
    /\ cfpc = "ready"
    /\ disk' = WriteFile(WriteFile(WriteFile(disk, filename_state, SavedState(res)),
                                    filename_data, SavedData(blk)),
                          filename, IF dirty THEN info ELSE disk[filename].body)
    /\ f_state' = "closed" /\ f_data' = "closed" /\ f_info' = "closed"
    /\ atClose' = [res |-> res, blk |-> blk]
    /\ cfpc' = "closed"
    /\ UNCHANGED <<nobj, nreads, info, dirty, res, blk, req, pos, stream_f,
                   stream_offset, stream_data, read_offset, read_bytes, streams, faults,
                   httperr, result, res0, other>>
    /\ UNCHANGED getinfo
    /\ UNCHANGED cdbvars

-----------------------------------------------------------------------------
(* CachedFile.read *)

\* line 252
StreamSkip == 10000

\* line 264
ChunkSize == 131072

\* the (offset, length) the reads of the model ask for
Requests ==
    { [offset |-> 0, length |-> FileSize],
      [offset |-> 100, length |-> 50],
      [offset |-> BlockSize - 10, length |-> 20],
      [offset |-> BlockSize, length |-> BlockSize],
      [offset |-> (NBlocks - 1) * BlockSize, length |-> LastLen] }

\* stream_f.close() of stream i (0: there is none)
CloseStream(ss, i) ==
    IF i = 0 THEN ss ELSE [ss EXCEPT ![i].closes = @ + 1]

\* the condition of line 252 on an open stream
DropStream(s_offset, c_offset) ==
    s_offset < c_offset \/ c_offset > s_offset + StreamSkip

\* what block_cache.read(offset, length) returns, compared to the remote file
CacheRead(k, offset, length) ==
    IF \A b \in BlocksOf(offset, length) : k[b] = BlockStart(b) THEN "ok" ELSE "wrong"

\* read(io, offset, length) up to the loop (lines 224-235)
ReadCall(offset, length) ==
    /\ cfpc = "ready"
    /\ nreads < MaxReads
    /\ nreads' = nreads + 1
    /\ req' = [offset |-> offset, length |-> length]
    /\ pos' = NoPos
    /\ stream_f' = 0 /\ stream_offset' = 0 /\ stream_data' = NoData
    /\ read_offset' = 0 /\ read_bytes' = 0
    /\ streams' = <<>> /\ faults' = 0 /\ httperr' = FALSE
    /\ res0' = res
    /\ result' = ""
    /\ cfpc' = "loop"
    /\ UNCHANGED <<disk, nobj, info, dirty, f_info, f_state, f_data, res, blk, atClose,
                   other>>
    /\ UNCHANGED getinfo
    /\ UNCHANGED cdbvars

\* a finally clause that closes nothing
Finally_Leak(ss, i) == ss

\* the finally clause (lines 276-278)
Finally(ss, i) == CloseStream(ss, i)

\* the variables no step of read changes
ReadFrame ==
    /\ UNCHANGED <<disk, nobj, nreads, info, dirty, f_info, f_state, f_data, req, res0, atClose,
                   other>>
    /\ UNCHANGED getinfo
    /\ UNCHANGED cdbvars

\* line 252: the open stream is closed before the range p is fetched
Drops(p) == stream_f # 0 /\ DropStream(stream_offset, p.c_offset)

\* lines 242-247: the cache is ready, return block_cache.read(offset, length)
ReadReturn ==
    /\ cfpc = "loop"
    /\ NoPos \in PreRead(res, req.offset, req.length)
    /\ result' = CacheRead(blk, req.offset, req.length)
    /\ streams' = Finally(streams, stream_f)
    /\ stream_f' = 0
    /\ cfpc' = "ready"
    /\ UNCHANGED <<pos, stream_offset, stream_data, read_offset, read_bytes, res, blk,
                   faults, httperr>>
    /\ ReadFrame

\* lines 250-262 when the open stream is kept
KeepStream ==
    /\ cfpc = "loop"
    /\ \E p \in PreRead(res, req.offset, req.length) :
          /\ p # NoPos
          /\ stream_f # 0 /\ ~Drops(p)
          /\ pos' = p
          /\ read_offset' = stream_offset
          /\ read_bytes' = 0
          /\ cfpc' = IF stream_offset < p.c_length + p.c_offset THEN "inner" ELSE "loop"
    /\ UNCHANGED <<result, streams, stream_f, stream_offset, stream_data, res, blk,
                   faults, httperr>>
    /\ ReadFrame

\* a reopening that keeps the pending chunks of the stream before
OpenStream_KeepsPending ==
    /\ cfpc = "loop"
    /\ \E p \in PreRead(res, req.offset, req.length) :
          LET ss == IF Drops(p) THEN CloseStream(streams, stream_f) ELSE streams
          IN  /\ p # NoPos
              /\ stream_f = 0 \/ Drops(p)
              /\ pos' = p
              /\ streams' = Append(ss, [start |-> p.c_offset, len |-> p.c_length,
                                         delivered |-> 0, closes |-> 0])
              /\ stream_f' = Len(ss) + 1
              /\ stream_offset' = p.c_offset
              /\ stream_data' = stream_data
              /\ read_offset' = p.c_offset
              /\ read_bytes' = 0
              /\ cfpc' = IF p.c_offset < p.c_length + p.c_offset THEN "inner" ELSE "loop"
    /\ UNCHANGED <<result, res, blk, faults, httperr>>
    /\ ReadFrame

\* a get_content call for the range of the read instead of the missing range
OpenStream_ForRequest ==
    /\ cfpc = "loop"
    /\ \E p \in PreRead(res, req.offset, req.length) :
          LET ss == IF Drops(p) THEN CloseStream(streams, stream_f) ELSE streams
          IN  /\ p # NoPos
              /\ stream_f = 0 \/ Drops(p)
              /\ pos' = p
              /\ streams' = Append(ss, [start |-> req.offset, len |-> req.length,
                                         delivered |-> 0, closes |-> 0])
              /\ stream_f' = Len(ss) + 1
              /\ stream_offset' = req.offset
              /\ stream_data' = NoData
              /\ read_offset' = req.offset
              /\ read_bytes' = 0
              /\ cfpc' = IF req.offset < p.c_length + p.c_offset THEN "inner" ELSE "loop"
    /\ UNCHANGED <<result, res, blk, faults, httperr>>
    /\ ReadFrame

\* lines 250-262 when there is no stream, or the open one is closed, and
\* io.get_content answers with a stream
OpenStream ==
    /\ cfpc = "loop"
    /\ \E p \in PreRead(res, req.offset, req.length) :
          LET ss == IF Drops(p) THEN CloseStream(streams, stream_f) ELSE streams
          IN  /\ p # NoPos
              /\ stream_f = 0 \/ Drops(p)
              /\ pos' = p
              /\ streams' = Append(ss, [start |-> p.c_offset, len |-> p.c_length,
                                         delivered |-> 0, closes |-> 0])
              /\ stream_f' = Len(ss) + 1
              /\ stream_offset' = p.c_offset
              /\ stream_data' = NoData
              /\ read_offset' = p.c_offset
              /\ read_bytes' = 0
              /\ cfpc' = IF p.c_offset < p.c_length + p.c_offset THEN "inner" ELSE "loop"
    /\ UNCHANGED <<result, res, blk, faults, httperr>>
    /\ ReadFrame

\* the same when io.get_content raises HTTPError: lines 274-278
OpenFails ==
    /\ cfpc = "loop"
    /\ \E p \in PreRead(res, req.offset, req.length) :
          LET ss == IF Drops(p) THEN CloseStream(streams, stream_f) ELSE streams
          IN  /\ p # NoPos
              /\ stream_f = 0 \/ Drops(p)
              /\ pos' = p
              /\ streams' = Finally(ss, 0)
    /\ stream_f' = 0
    /\ httperr' = TRUE
    /\ result' = "IOError(EFAULT)"
    /\ cfpc' = "ready"
    /\ UNCHANGED <<stream_offset, stream_data, read_offset, read_bytes, res, blk, faults>>
    /\ ReadFrame

\* the lengths stream_f.read(131072) may return when left bytes are to come
ReadSizes(left) ==
    LET full == IF left < ChunkSize THEN left ELSE ChunkSize
    IN  {full} \cup (IF ShortRead < full THEN {ShortRead} ELSE {})

\* bytes the open stream has yet to deliver
StreamLeft == streams[stream_f].len - streams[stream_f].delivered

\* lines 264-272: stream_f.read returns a block
StreamBlock ==
    /\ cfpc = "inner"
    /\ StreamLeft > 0
    /\ \E n \in ReadSizes(StreamLeft) :
          LET s == streams[stream_f]
              data == IF stream_data.len = 0
                      THEN [src |-> s.start + s.delivered, len |-> n]
                      ELSE [src |-> stream_data.src, len |-> stream_data.len + n]
          IN  /\ streams' = [streams EXCEPT ![stream_f].delivered = @ + n]
              /\ read_bytes' = read_bytes + n
              /\ stream_offset' = ReceiveOffset(stream_offset, data)
              /\ stream_data' = ReceiveData(stream_offset, data)
              /\ res' = ReceiveRes(res, stream_offset, data)
              /\ blk' = ReceiveBlk(res, blk, stream_offset, data)
              /\ cfpc' = IF read_offset + read_bytes' < pos.c_length + pos.c_offset
                         THEN "inner" ELSE "loop"
    /\ UNCHANGED <<pos, read_offset, stream_f, faults, httperr, result>>
    /\ ReadFrame

\* lines 264-268: stream_f.read returns no block, at the end of the range
\* the stream was opened for
StreamEnd ==
    /\ cfpc = "inner"
    /\ StreamLeft = 0
    /\ streams' = CloseStream(streams, stream_f)
    /\ stream_f' = 0
    /\ cfpc' = "loop"
    /\ UNCHANGED <<pos, read_offset, read_bytes, stream_offset, stream_data, res, blk,
                   faults, httperr, result>>
    /\ ReadFrame

\* an empty block that does not leave the inner loop
StreamEndsEarly_NoBreak ==
    /\ cfpc = "inner"
    /\ StreamLeft > 0
    /\ faults < MaxFaults
    /\ faults' = faults + 1
    /\ UNCHANGED <<streams, stream_f, cfpc>>
    /\ UNCHANGED <<pos, read_offset, read_bytes, stream_offset, stream_data, res, blk,
                   httperr, result>>
    /\ ReadFrame

\* lines 264-268: stream_f.read returns no block before that
StreamEndsEarly ==
    /\ cfpc = "inner"
    /\ StreamLeft > 0
    /\ faults < MaxFaults
    /\ faults' = faults + 1
    /\ streams' = CloseStream(streams, stream_f)
    /\ stream_f' = 0
    /\ cfpc' = "loop"
    /\ UNCHANGED <<pos, read_offset, read_bytes, stream_offset, stream_data, res, blk,
                   httperr, result>>
    /\ ReadFrame

\* a fetch error that takes back what the call gave to the block cache
StreamFails_Rollback ==
    /\ cfpc = "inner"
    /\ StreamLeft > 0
    /\ streams' = Finally(streams, stream_f)
    /\ stream_f' = 0
    /\ httperr' = TRUE
    /\ result' = "IOError(EFAULT)"
    /\ cfpc' = "ready"
    /\ res' = res0
    /\ UNCHANGED <<pos, read_offset, read_bytes, stream_offset, stream_data, blk, faults>>
    /\ ReadFrame

\* line 264 when stream_f.read raises HTTPError: lines 274-278
StreamFails ==
    /\ cfpc = "inner"
    /\ StreamLeft > 0
    /\ streams' = Finally(streams, stream_f)
    /\ stream_f' = 0
    /\ httperr' = TRUE
    /\ result' = "IOError(EFAULT)"
    /\ cfpc' = "ready"
    /\ UNCHANGED <<pos, read_offset, read_bytes, stream_offset, stream_data, res, blk, faults>>
    /\ ReadFrame

-----------------------------------------------------------------------------
(* CachedFile.read called by a second thread on the same object *)

\* what a step of the second thread leaves alone
OtherFrame ==
    /\ UNCHANGED <<disk, cfpc, nobj, nreads, info, dirty, f_info, f_state, f_data, req, pos,
                   stream_f, stream_offset, stream_data, read_offset, read_bytes, streams,
                   faults, httperr, result, res0, atClose>>
    /\ UNCHANGED getinfo
    /\ UNCHANGED cdbvars

\* read(io, offset, length) up to the loop (lines 224-235): nothing in it
\* waits for a read that is in progress
OtherCall(offset, length) ==
    /\ Usable
    /\ other.pc = "idle"
    /\ other.calls < MaxOtherReads
    /\ other' = [NoOther EXCEPT !.pc = "loop", !.calls = other.calls + 1,
                                !.req = [offset |-> offset, length |-> length]]
    /\ UNCHANGED <<res, blk>>
    /\ OtherFrame

\* lines 240-247 and the finally clause
OtherReturn ==
    /\ Usable
    /\ other.pc = "loop"
    /\ NoPos \in PreRead(res, other.req.offset, other.req.length)
    /\ other' = [other EXCEPT !.pc = "idle", !.open = FALSE,
                              !.result = CacheRead(blk, other.req.offset, other.req.length)]
    /\ UNCHANGED <<res, blk>>
    /\ OtherFrame

\* lines 240-262: a range is missing; the stream is kept, or one is opened
OtherFetch ==
    /\ Usable
    /\ other.pc = "loop"
    /\ \E p \in PreRead(res, other.req.offset, other.req.length) :
          /\ p # NoPos
          /\ other' =
                IF other.open /\ ~DropStream(other.stream_offset, p.c_offset)
                THEN [other EXCEPT !.pos = p, !.read_offset = other.stream_offset,
                                   !.read_bytes = 0,
                                   !.pc = IF other.stream_offset < p.c_length + p.c_offset
                                          THEN "inner" ELSE "loop"]
                ELSE [other EXCEPT !.pos = p, !.open = TRUE,
                                   !.s = [start |-> p.c_offset, len |-> p.c_length,
                                          delivered |-> 0],
                                   !.stream_offset = p.c_offset, !.stream_data = NoData,
                                   !.read_offset = p.c_offset, !.read_bytes = 0,
                                   !.pc = "inner"]
    /\ UNCHANGED <<res, blk>>
    /\ OtherFrame

\* lines 264-272: stream_f.read returns a block
OtherBlock ==
    /\ Usable
    /\ other.pc = "inner"
    /\ other.s.len - other.s.delivered > 0
    /\ \E n \in ReadSizes(other.s.len - other.s.delivered) :
          LET data == IF other.stream_data.len = 0
                      THEN [src |-> other.s.start + other.s.delivered, len |-> n]
                      ELSE [src |-> other.stream_data.src, len |-> other.stream_data.len + n]
          IN  /\ other' = [other EXCEPT
                              !.s.delivered = @ + n,
                              !.read_bytes = @ + n,
                              !.stream_offset = ReceiveOffset(other.stream_offset, data),
                              !.stream_data = ReceiveData(other.stream_offset, data),
                              !.pc = IF other.read_offset + other.read_bytes + n
                                          < other.pos.c_length + other.pos.c_offset
                                     THEN "inner" ELSE "loop"]
              /\ res' = ReceiveRes(res, other.stream_offset, data)
              /\ blk' = ReceiveBlk(res, blk, other.stream_offset, data)
    /\ OtherFrame

\* lines 264-268: stream_f.read returns no block
OtherEnd ==
    /\ Usable
    /\ other.pc = "inner"
    /\ other.s.len - other.s.delivered = 0
    /\ other' = [other EXCEPT !.open = FALSE, !.pc = "loop"]
    /\ UNCHANGED <<res, blk>>
    /\ OtherFrame

-----------------------------------------------------------------------------
(* The cache directories a CachedFile is constructed on *)

\* a block cache that holds the remote bytes of the blocks r
GoodCache(r) == [b \in Blocks |-> IF b \in r THEN BlockStart(b) ELSE RandomFill]

FileTriple(i, st, da) ==
    (IF i = Absent THEN <<>> ELSE (get_filename_and_key(Prk0, F, None) :> File(i)))
    @@ (IF st = Absent THEN <<>> ELSE (get_filename_and_key(Prk0, F, "state") :> File(st)))
    @@ (IF da = Absent THEN <<>> ELSE (get_filename_and_key(Prk0, F, "data") :> File(da)))

\* no artifact; the artifacts an earlier run left at close; and such
\* artifacts with one of them missing or overwritten
StartFiles ==
    { FileTriple(Absent, Absent, Absent) }
    \cup { FileTriple(RemoteFileInfo, SavedState(r), SavedData(GoodCache(r))) : r \in {{}, {1}} }
    \cup { FileTriple(RemoteFileInfo, SavedState({0}), Garbage),
           FileTriple(Garbage, SavedState({0}), SavedData(GoodCache({0}))),
           FileTriple(RemoteFileInfo, Absent, SavedData(GoodCache({0}))) }

InitFile ==
    /\ \E ft \in StartFiles :
          disk = (SaltFn :> File(SaltBody(64, 0)))
                 @@ NodeFile(<<>>, DirInfo((F :> ChildFile))) @@ ft
    /\ pc = "ready"
    /\ prk = Prk0
    /\ alive = {}
    /\ stack = <<>>
    /\ nsalt = 0
    /\ nopens = 1
    /\ removed = {}
    /\ err = ""
    /\ NoCachedFile

NextFile ==
    \/ WarmPath
    \/ ColdOpenFails
    \/ ColdInfoFails
    \/ ColdInfo
    \/ ColdBuild
    \/ ColdDataOpenFails
    \/ ColdDataWriteFails
    \/ ColdStateOpenFails
    \/ \E r \in Requests : ReadCall(r.offset, r.length)
    \/ ReadReturn
    \/ KeepStream
    \/ OpenStream
    \/ OpenFails
    \/ StreamBlock
    \/ StreamEnd
    \/ StreamEndsEarly
    \/ StreamFails
    \/ Close

SpecFile == InitFile /\ [][NextFile]_vars

-----------------------------------------------------------------------------
(* Reachability in a cache directory, stated without the walk *)

\* the children listed by the node artifact of upath (which parses as a dirnode)
ChildrenOf(d, p, upath) == LoadChildren(d[get_filename_and_key(p, upath, None)].body).val

\* upaths whose node artifact opens, decrypts and parses as a dirnode
DirUpaths(d, p) ==
    { fn.info : fn \in { n \in DOMAIN d : /\ n.kind = "hmac"
                                          /\ n.prk = p
                                          /\ isfile(d, n)
                                          /\ LoadChildren(d[n].body).exc = "" } }

ListedAs(d, p, upath, c, kind) ==
    /\ c \in DOMAIN ChildrenOf(d, p, upath)
    /\ ChildKind(ChildrenOf(d, p, upath), c) = Ok(JStr(kind))

RECURSIVE ReachN(_, _, _)
ReachN(d, p, n) ==
    IF n = 0 THEN {<<>>} \cap DirUpaths(d, p)
    ELSE LET R == ReachN(d, p, n - 1)
         IN  R \cup { v \in DirUpaths(d, p) :
                        \E u \in R : \E c \in DOMAIN ChildrenOf(d, p, u) :
                            ListedAs(d, p, u, c, "dirnode") /\ PathJoin(u, c) = v }

\* directories reached from the root through a chain of dirnode artifacts
Reach(d, p) == ReachN(d, p, Cardinality(DirUpaths(d, p)))

\* node artifacts of the reached directories, and the three artifacts of the
\* filenode children they list
LiveNames(d, p) ==
    { get_filename_and_key(p, u, None) : u \in Reach(d, p) }
    \cup UNION { { get_filename_and_key(p, PathJoin(u, c), ext) :
                     c \in { k \in DOMAIN ChildrenOf(d, p, u) : ListedAs(d, p, u, k, "filenode") },
                     ext \in Exts } : u \in Reach(d, p) }

GCClosed(d, p) == \A fn \in DOMAIN d : fn = SaltFn \/ fn \in LiveNames(d, p)

\* C1: GC closure. When the CacheDB constructor completes, every entry of the
\* cache directory other than salt is the node artifact of a directory reached
\* from the root through dirnode artifacts, or one of the three artifacts of a
\* filenode child listed by such a directory.
C1_GCClosure == [][pc = "scan" /\ pc' = "ready" => GCClosed(disk', prk')]_dbvars

\* a completed open that unlinked dead entries and kept live ones
C1_Witness ==
    /\ pc = "ready"
    /\ removed # {}
    /\ Cardinality(DOMAIN disk \cap alive) >= 4
    /\ GCClosed(disk, prk)

WarmConsistent(d, p) ==
    /\ <<>> \in DirUpaths(d, p)
    /\ \A fn \in DOMAIN d :
          \/ fn = SaltFn
          \/ d[fn].type # "file"
          \/ fn = get_filename_and_key(p, <<>>, None)
          \/ \E u \in DirUpaths(d, p) : \E c \in DOMAIN ChildrenOf(d, p, u) :
                \/ /\ ListedAs(d, p, u, c, "dirnode")
                   /\ fn = get_filename_and_key(p, PathJoin(u, c), None)
                   /\ PathJoin(u, c) \in DirUpaths(d, p)
                \/ /\ ListedAs(d, p, u, c, "filenode")
                   /\ \E ext \in Exts : fn = get_filename_and_key(p, PathJoin(u, c), ext)

\* C6: GC removes nothing from a warm, consistent cache. If the root and
\* every cached directory artifact parse as dirnodes and every file is salt,
\* a directory listed as dirnode by its cached parent or an artifact of a
\* child listed as filenode by its cached parent, the open unlinks no file.
C6_WarmKeepsAll ==
    [][pc = "scan" /\ WarmConsistent(disk, prk) => disk' = disk /\ removed' = {}]_dbvars

\* a completed open of a warm cache with a nested directory and a listed
\* file of which only the node artifact exists
C6_Witness ==
    /\ pc = "ready"
    /\ removed = {}
    /\ WarmConsistent(disk, prk)
    /\ DOMAIN disk \ {SaltFn} \subseteq alive
    /\ isfile(disk, get_filename_and_key(prk, A, None))
    /\ isfile(disk, get_filename_and_key(prk, F, None))
    /\ ~isfile(disk, get_filename_and_key(prk, F, "state"))
    /\ get_filename_and_key(prk, F, "state") \in alive

\* C8: cache corruption is never surfaced by the scanner. Whatever the popped
\* directory artifact holds, the step skips or lists it and the walk goes on:
\* the constructor does not fail in the walk.
C8_ScanNeverFails == [][pc = "scan" /\ stack # <<>> => pc' = "scan"]_dbvars


-----------------------------------------------------------------------------
(* Properties of CachedFile *)

\* C2: read correctness. Every block the block cache of a CachedFile marks
\* resident holds the remote bytes of that block, and a read that returns
\* returns the remote bytes of its range.
C2_ReadCorrect ==
    /\ Usable => \A b \in res : blk[b] = BlockStart(b)
    /\ result # "wrong"

\* C3: round trip of state. Constructing a CachedFile after a close takes the
\* warm path, the block cache has the residency and the resident bytes it had
\* at close, and a read whose range was resident when it was called opens no
\* remote stream.
C3_RoundTrip ==
    [][/\ cfpc = "closed" /\ cfpc' # "closed" =>
            /\ cfpc' = "ready" /\ ~dirty'
            /\ res' = atClose.res
            /\ \A b \in res' : blk'[b] = atClose.blk[b]
       /\ (nobj' > 1 /\ ~dirty' /\ Usable' /\ req' # NoReq /\ BlocksOf(req'.offset, req'.length) \subseteq res0') =>
            streams' = <<>>
      ]_vars

\* a reopened file that restored a partial residency and answered a read
\* inside it without the remote store
C3_Witness ==
    /\ nobj > 1 /\ ~dirty /\ cfpc = "ready"
    /\ atClose # NoClose
    /\ res = atClose.res /\ res # {} /\ res # Blocks
    /\ req # NoReq /\ BlocksOf(req.offset, req.length) \subseteq res0
    /\ result = "ok" /\ streams = <<>>

\* C4: residency monotonicity. Between construction and close no step of a
\* CachedFile removes a block from the resident set, also when a read ends
\* with a fetch error.
C4_ResidencyMonotone == [][Usable /\ Usable' => res \subseteq res']_vars

\* a read that ended with a fetch error after the cache took a block from it
C4_Witness ==
    /\ cfpc = "ready" /\ result = "IOError(EFAULT)" /\ httperr
    /\ res0 \subseteq res /\ res0 # res

\* C7: cold-path rebuild discards old residency. A construction that
\* completes never marks resident a block of a data blob re-created with random
\* fill, on the cold path or on a later warm path.
C7_ColdDiscardsResidency ==
    [][~Usable /\ Usable' => \A b \in res' : blk'[b] # RandomFill]_vars

\* C9: remote stream scoping in read. At most one stream of the call is open,
\* it is stream_f; no stream is closed twice; when the call has left every
\* stream it opened is closed once; and a remote failure ends the call with
\* an I/O error.
C9_StreamScoping ==
    /\ \A i \in DOMAIN streams : streams[i].closes = IF i = stream_f THEN 0 ELSE 1
    /\ cfpc \notin {"loop", "inner"} => stream_f = 0
    /\ httperr => cfpc \notin {"loop", "inner"} /\ result = "IOError(EFAULT)"

\* a read that left with a fetch error on its second stream
C9_Witness ==
    /\ cfpc = "ready" /\ httperr /\ Len(streams) = 2
    /\ \A i \in DOMAIN streams : streams[i].closes = 1
    /\ streams[2].delivered > 0

\* C10: encrypted stream scoping in construction. When construction fails no
\* encrypted stream it opened is left open, and when the warm path has failed
\* none is open before the cold path starts.
C10_CryptStreamsClosed ==
    cfpc \in {"failed", "cold"} => f_info # "open" /\ f_state # "open" /\ f_data # "open"


-----------------------------------------------------------------------------
(* The constructors of CachedDir and CachedFile *)

\* constructions and closes, without reads
NextInfo ==
    \/ \E upath \in RemoteDirs, how \in DirOutcomes : CachedDir(upath, how)
    \/ WarmPath
    \/ ColdOpenFails
    \/ ColdInfoFails
    \/ ColdInfo
    \/ ColdBuild
    \/ ColdDataOpenFails
    \/ ColdDataWriteFails
    \/ ColdStateOpenFails
    \/ Close

SpecInfo == InitFile /\ [][NextInfo]_vars

\* the node artifact of the constructor getinfo is about
InfoArtifact == get_filename_and_key(prk, getinfo.upath, None)

\* the object io.get_info returns to that constructor
InfoReturned ==
    IF getinfo.kind = "dir" THEN RemoteDirInfo(getinfo.upath) ELSE RemoteFileInfo

\* the constructor getinfo is about has returned or raised
Constructed ==
    \/ getinfo.kind = "dir"
    \/ getinfo.kind = "file" /\ cfpc \notin {"cold", "coldbuild"}

\* the get_info call failed: no node artifact, and the fetch error is raised
RolledBack ==
    /\ ~isfile(disk, InfoArtifact)
    /\ IF getinfo.kind = "dir" THEN err = "IOError(EFAULT)"
       ELSE cfpc = "failed" /\ result = "IOError(EFAULT)"

\* C11 as stated: a constructor calls io.get_info zero times when the node
\* artifact opens and decodes and exactly once otherwise; after a call that
\* succeeded the node artifact decodes to the returned object; after a call
\* that failed the node artifact does not exist and the caller has the fetch
\* error.
C11_ReadThrough ==
    Constructed =>
        /\ getinfo.calls = IF getinfo.decoded THEN 0 ELSE 1
        /\ getinfo.got = "ok" =>
              isfile(disk, InfoArtifact) /\ disk[InfoArtifact].body = InfoReturned
        /\ getinfo.got = "fail" => RolledBack

\* C11 amended: a CachedDir constructor calls io.get_info zero times when the
\* node artifact opens and decodes, a CachedFile constructor zero times when
\* its whole warm path succeeds; otherwise the call is made once, unless the
\* node artifact cannot be created. After a call that succeeded the node
\* artifact decodes to the returned object (of a CachedFile: once it is
\* closed) and a CachedDir constructor that finds it calls zero times; after
\* a call that failed the node artifact does not exist and the caller has
\* the fetch error.
C11_ReadThroughAmended ==
    /\ [](/\ getinfo.calls <= 1
          /\ getinfo.kind = "dir" =>
                /\ getinfo.decoded => getinfo.calls = 0
                /\ ~getinfo.decoded => (getinfo.calls = 0 <=> err = "IOError")
                /\ getinfo.got = "ok" =>
                      isfile(disk, InfoArtifact) /\ disk[InfoArtifact].body = InfoReturned
          /\ (getinfo.kind = "file" /\ Constructed) =>
                /\ ~dirty => getinfo.calls = 0
                /\ dirty => (getinfo.calls = 0 <=>
                               cfpc = "failed" /\ result = "IOError" /\ f_info # "open")
                /\ (getinfo.got = "ok" /\ cfpc = "closed") =>
                      isfile(disk, InfoArtifact) /\ disk[InfoArtifact].body = InfoReturned
          /\ (getinfo.got = "fail" /\ Constructed) => RolledBack)
    /\ [][(/\ getinfo' # getinfo
           /\ getinfo'.kind = "dir"
           /\ isfile(disk, get_filename_and_key(prk, getinfo'.upath, None))
           /\ disk[get_filename_and_key(prk, getinfo'.upath, None)].body
                 = RemoteDirInfo(getinfo'.upath))
          => getinfo'.calls = 0]_vars

\* a CachedFile whose info artifact decoded and whose state artifact did not
\* open: the info was fetched once, and is in the node artifact after close
C11_Witness ==
    /\ getinfo.kind = "file" /\ getinfo.decoded /\ dirty
    /\ getinfo.calls = 1 /\ getinfo.got = "ok"
    /\ cfpc = "closed"
    /\ disk[InfoArtifact].body = RemoteFileInfo


-----------------------------------------------------------------------------
(* Two threads that call read on one CachedFile *)

NextThreads ==
    \/ WarmPath
    \/ ColdInfo
    \/ ColdBuild
    \/ \E r \in Requests : ReadCall(r.offset, r.length)
    \/ ReadReturn
    \/ KeepStream
    \/ OpenStream
    \/ StreamBlock
    \/ StreamEnd
    \/ \E r \in Requests : OtherCall(r.offset, r.length)
    \/ OtherReturn
    \/ OtherFetch
    \/ OtherBlock
    \/ OtherEnd

SpecThreads == InitFile /\ [][NextThreads]_vars

\* C12: reads on one CachedFile are serialized. No read call is in progress
\* on a CachedFile while another read call on it has not returned or raised.
C12_ReadsSerialized ==
    ~(cfpc \in {"loop", "inner"} /\ other.pc \in {"loop", "inner"})


\* C13: stream reuse rule. When the loop finds a range missing at c_offset
\* while a stream is open, it closes the stream (and opens one at c_offset)
\* exactly when c_offset < stream_offset or c_offset > stream_offset + 10000;
\* otherwise it keeps the stream and calls get_content no more.
C13_StreamReuse ==
    [][(/\ cfpc = "loop" /\ stream_f # 0
        /\ cfpc' \in {"loop", "inner"} \/ httperr')
       => /\ streams'[stream_f].closes > 0
                <=> \/ pos'.c_offset < stream_offset
                    \/ pos'.c_offset > stream_offset + StreamSkip
          /\ streams'[stream_f].closes = 0 => stream_f' = stream_f /\ Len(streams') = Len(streams)
      ]_vars


-----------------------------------------------------------------------------
(* Properties of the scan *)

\* s is a prefix of t
IsPrefix(s, t) == Len(s) <= Len(t) /\ SubSeq(t, 1, Len(s)) = s

\* the info string names the directory upath or a path below it
Below(upath, i) ==
    upath = <<>> \/ i = upath \/ IsPrefix(upath \o <<"/">>, i)

\* directories the walk comes to (the root, or a dirnode child of a reached
\* directory) whose node artifact exists and does not load as a dirnode
CorruptDirs(d, p) ==
    { n.info : n \in { m \in DOMAIN d :
        /\ m.kind = "hmac" /\ m.prk = p /\ isfile(d, m)
        /\ LoadChildren(d[m].body).exc # ""
        /\ \/ m.info = <<>>
           \/ \E u \in Reach(d, p) : \E c \in DOMAIN ChildrenOf(d, p, u) :
                 ListedAs(d, p, u, c, "dirnode") /\ PathJoin(u, c) = m.info } }

\* C14: a corrupt directory prunes its subtree. When the constructor has
\* ended, no artifact of a directory whose node artifact failed to load as a
\* dirnode, or of a path below it, is in the live set or in the cache
\* directory, and the live artifacts outside are kept.
C14_CorruptPrunes ==
    [][(pc = "scan" /\ pc' \in {"ready", "failed"}) =>
          /\ \A n \in DOMAIN disk :
                (/\ n.kind = "hmac" /\ n.prk = prk
                 /\ \E u \in CorruptDirs(disk, prk) : Below(u, n.info))
                => n \notin alive' /\ n \notin DOMAIN disk'
          /\ \A n \in LiveNames(disk, prk) \cap DOMAIN disk : n \in DOMAIN disk'
      ]_dbvars


\* the walk runs to its end: an iteration of the while loop that can run does
SpecDBFair == SpecDB /\ WF_vars(ScanStep) /\ WF_vars(Cleanup)

\* the entries of the stack whose directory artifact the walk has loaded before
Revisits == { i \in DOMAIN stack : isfile(disk, stack[i].fn) /\ stack[i].fn \in alive }

\* C20: scan termination. The walk never holds on its stack a directory
\* artifact it has already loaded, so it opens each directory artifact at
\* most once, and a walk that has started ends: the constructor leaves the
\* scan, whatever the directory artifacts hold.
C20_ScanTerminates ==
    /\ [](pc = "scan" => Revisits = {})
    /\ (pc = "scan") ~> (pc # "scan")

\* the root node artifact under PRK p is absent or does not load as a dirnode
NoLiveRoot(d, p) ==
    LET fn == get_filename_and_key(p, <<>>, None)
    IN  ~isfile(d, fn) \/ LoadChildren(d[fn].body).exc # ""

\* C19: no live root wipes the cache. When the constructor has ended on a
\* cache directory whose root node artifact under the current PRK is absent
\* or fails to load as a dirnode (and which holds plain files only), the live
\* set is empty and the cache directory holds no file other than salt.
C19_NoRootWipes ==
    [][(/\ pc = "scan" /\ pc' \in {"ready", "failed"}
        /\ NoLiveRoot(disk, prk)
        /\ \A fn \in DOMAIN disk : disk[fn].type = "file") =>
          /\ alive' = {}
          /\ \A fn \in DOMAIN disk' : fn = SaltFn \/ disk'[fn].type # "file"
      ]_dbvars

-----------------------------------------------------------------------------
(* Properties of the read loop *)

\* C15: get_content is issued only on a residency miss and for exactly the
\* missing range. Every get_content call of read is for the range pre_read
\* returned in the same iteration and sets stream_offset to its start; the
\* cache is read only when pre_read returned None; and a read whose range is
\* resident when it is called calls get_content no time.
C15_FetchOnMiss ==
    /\ [](((Usable /\ nreads > 0 /\ BlocksOf(req.offset, req.length) \subseteq res0))
             => streams = <<>>)
    /\ [][/\ (cfpc = "loop" /\ (Len(streams') > Len(streams) \/ httperr')) =>
                /\ pos' # NoPos
                /\ pos' \in PreRead(res, req.offset, req.length)
                /\ Len(streams') > Len(streams) =>
                      /\ streams'[Len(streams')].start = pos'.c_offset
                      /\ streams'[Len(streams')].len = pos'.c_length
                      /\ stream_offset' = pos'.c_offset
          /\ (cfpc = "loop" /\ cfpc' = "ready" /\ ~httperr') =>
                /\ NoPos \in PreRead(res, req.offset, req.length)
                /\ result' = CacheRead(blk, req.offset, req.length)
                /\ Len(streams') = Len(streams)
         ]_vars

\* a read that fetched two missing ranges and returned from the cache
C15_Witness ==
    /\ cfpc = "ready" /\ result = "ok" /\ nreads > 0
    /\ Len(streams) = 2
    /\ streams[1].start # streams[2].start
    /\ res # res0


\* C18: stream position invariant. While a remote stream is open in read,
\* stream_offset plus the length of the pending chunks is the remote offset
\* of the next byte the stream delivers, the pending chunks are the remote
\* bytes from stream_offset on, and every block the cache takes from
\* receive_cached_data holds the remote bytes of its offset.
C18_StreamPosition ==
    /\ [](stream_f # 0 =>
            /\ stream_offset + stream_data.len
                  = streams[stream_f].start + streams[stream_f].delivered
            /\ stream_data.len > 0 => stream_data.src = stream_offset)
    /\ [][cfpc = "inner" => \A b \in res' \ res : blk'[b] = BlockStart(b)]_vars

\* a stream opened after a premature end of stream, with a chunk pending
C18_Witness ==
    /\ stream_f = 2 /\ faults > 0
    /\ streams[1].delivered > 0
    /\ stream_data.len > 0

\* a step of a running read call
ReadStep ==
    \/ ReadReturn
    \/ KeepStream
    \/ OpenStream
    \/ OpenFails
    \/ StreamBlock
    \/ StreamEnd
    \/ StreamEndsEarly
    \/ StreamFails

\* a read call that has started goes on until it returns or raises
SpecFileFair == SpecFile /\ WF_vars(ReadStep)

-----------------------------------------------------------------------------
(* get_filename_and_key taken alone *)

\* the strings over "a" and "/" of length up to n
RECURSIVE PathStrings(_)
PathStrings(n) ==
    IF n = 0 THEN {<<>>}
    ELSE LET S == PathStrings(n - 1)
         IN  S \cup { Append(x, ch) : x \in {y \in S : Len(y) = n - 1}, ch \in {"a", "/"} }

\* the upaths tried: short strings, and a short string followed by a tag,
\* with and without the bytes of nonpath between them
Upaths ==
    PathStrings(MaxPathLen)
    \cup { u \o TagOf(ext) : u \in PathStrings(MaxPathLen), ext \in {"state", "data"} }
    \cup { u \o nonpath \o TagOf(ext) : u \in PathStrings(MaxPathLen), ext \in {"state", "data"} }

\* the upath does not contain the byte sequence of nonpath
NoNonpath(u) ==
    \A i \in 1 .. Len(u) - 2 : SubSeq(u, i, i + 2) # nonpath

NameArgs == [upath : Upaths, ext : Exts]

InitNames ==
    /\ args \in [1 .. 2 -> NameArgs]
    /\ derived = <<>>
    /\ disk = <<>> /\ pc = "none" /\ prk = Prk0 /\ alive = {} /\ stack = <<>>
    /\ nsalt = 0 /\ nopens = 0 /\ removed = {} /\ err = ""
    /\ cfpc = "none" /\ nobj = 0 /\ nreads = 0
    /\ info = None /\ dirty = FALSE
    /\ f_info = "None" /\ f_state = "None" /\ f_data = "None"
    /\ res = {} /\ blk = <<>>
    /\ req = NoReq /\ pos = NoPos
    /\ stream_f = 0 /\ stream_offset = 0 /\ stream_data = NoData
    /\ read_offset = 0 /\ read_bytes = 0
    /\ streams = <<>> /\ faults = 0 /\ httperr = FALSE
    /\ result = "" /\ res0 = {} /\ atClose = NoClose
    /\ getinfo = NoGetInfo /\ other = NoOther

\* get_filename_and_key(upath, ext) on both arguments
Derive ==
    /\ derived = <<>>
    /\ derived' = [i \in 1 .. 2 |-> get_filename_and_key(prk, args[i].upath, args[i].ext)]
    /\ UNCHANGED <<dbvars, cfilevars, getinfo, args>>

SpecNames == InitNames /\ [][Derive]_vars

\* C17: artifact identity is injective in (upath, tag). For upaths that do
\* not contain the bytes //\x00 and tags none, state and data, two distinct
\* (upath, tag) get distinct info strings, hence distinct names; equal ones
\* get the same name.
C17_NamesInjective ==
    (derived # <<>> /\ NoNonpath(args[1].upath) /\ NoNonpath(args[2].upath)) =>
        /\ args[1] # args[2] =>
              /\ derived[1].info # derived[2].info
              /\ derived[1] # derived[2]
        /\ args[1] = args[2] => derived[1] = derived[2]

\* a path with the tag state, and the path that is it followed by the tag
C17_Witness ==
    /\ derived # <<>>
    /\ args[1].ext = "state" /\ args[2].ext = None
    /\ args[2].upath = args[1].upath \o TagOf("state")
    /\ NoNonpath(args[1].upath) /\ NoNonpath(args[2].upath)
    /\ derived[1] # derived[2]

====
